---- MODULE Spec2Model ----
(***************************************************************************)
(* Model of the JWKS cache of aws-jwt-verify (src/src/jwk.ts):             *)
(* SimplePenaltyBox, SimpleJwksCache, findJwkInJwks and parseJwks.         *)
(*                                                                         *)
(* JavaScript runs every synchronous stretch of a function to completion,  *)
(* so one action is one stretch of code between two suspension points      *)
(* (await).  Continuations of different calls interleave freely, because   *)
(* the PenaltyBox and the Fetcher are interfaces whose promises settle     *)
(* whenever their implementation decides.  The one ordering the language   *)
(* fixes is kept: reactions on the same promise run in the order in which  *)
(* they were registered, so the call that started a fetch continues, in    *)
(* getJwks and then in getJwk, before the calls that joined it.            *)
(***************************************************************************)
EXTENDS Integers, Sequences, FiniteSets, TLC

(* ------------------------------ bounds --------------------------------- *)
MaxCalls == 2       \* calls of the cache's methods in a run of Spec
MaxAttempts == 3    \* getJwk calls in a run of SpecPenalty
MaxBoxCalls == 4    \* calls of the penalty box's methods in a run of SpecBox
MaxLookups == 2     \* calls of the cache's methods in a run of SpecKid
MaxKidCalls == 3    \* calls of the PenaltyBox interface in a run of SpecBoxKid
MaxValidations == 1  \* calls of validateAlbJwtFields in a run of SpecAlbFields
MaxVerifies == 2     \* calls of verify and verifySync in a run of SpecVerify

WaitSeconds == 2    \* SimplePenaltyBox.waitSeconds, in clock ticks

Uris == {"u1", "u2"}
Kids == {"k1", "k2"}
NoKid == "<absent>"          \* a field that is missing (undefined)
NonString == "<nonstring>"   \* a field whose value is not a string

(* ------------------------------ values --------------------------------- *)
\* A JSON object that stands for a JWK: kty, kid and the key material n.
Jwk(kty, kid, n) == [t |-> "object", kty |-> kty, kid |-> kid, n |-> n]

K1 == Jwk("RSA", "k1", "n1")
K2 == Jwk("RSA", "k2", "n2")
K1new == Jwk("RSA", "k1", "n3")
KBadKty == Jwk(NonString, "k1", "n1")
EmptyKid == ""                           \* the empty string as a kid
KNoKid == Jwk("RSA", NoKid, "n0")        \* a key without kid
KEmpty == Jwk("RSA", EmptyKid, "n4")     \* a key whose kid is ""
K1dup == Jwk("RSA", "k1", "n5")          \* a second key with the kid of K1
K1other == Jwk("RSA", "k1", "n6")        \* the key with that kid of another issuer

\* A JSON object with a keys array.
JwksOf(keys) == [t |-> "object", hasKeys |-> TRUE, keysIsArray |-> TRUE, keys |-> keys]
J1 == JwksOf(<<K1>>)
J12 == JwksOf(<<K1, K2>>)
J1new == JwksOf(<<K1new>>)
JDup == JwksOf(<<KNoKid, KEmpty, K1, K1dup>>)
J2 == JwksOf(<<K1other>>)

\* Response bodies after UTF-8 decoding and JSON parsing.
NotJson == [t |-> "notjson"]
JsonBadJwk == JwksOf(<<K1, KBadKty>>)

\* What fetcher.fetch(uri) settles with: a network failure or a body.
NetworkError == [net |-> "error"]
Body(b) == [net |-> "ok", body |-> b]
Responses == {NetworkError, Body(NotJson), Body(JsonBadJwk), Body(J1), Body(J12)}

Absent == [absent |-> TRUE]          \* Map.get(uri) === undefined
Pending == [kind |-> "pending"]
Err(e) == [kind |-> "error", err |-> e]
OkJwk(j) == [kind |-> "jwk", jwk |-> j]
OkJwks(j) == [kind |-> "jwks", jwks |-> j]

(* ------------------------- pure functions ------------------------------ *)
RECURSIVE FindFrom(_, _, _)
FindFrom(keys, kid, i) ==
    IF i > Len(keys) THEN Absent
    ELSE IF keys[i].kid # NoKid /\ keys[i].kid = kid THEN keys[i]
    ELSE FindFrom(keys, kid, i + 1)

\* Mutant: the last key with the kid is taken.
findJwkInJwks_LastMatch(jwks, kid) ==
    LET m == {i \in 1..Len(jwks.keys) :
                 jwks.keys[i].kid # NoKid /\ jwks.keys[i].kid = kid} IN
    IF m = {} THEN Absent ELSE jwks.keys[CHOOSE i \in m : \A j \in m : j <= i]

\* findJwkInJwks: the first key whose kid is present and equal to kid.
findJwkInJwks(jwks, kid) == FindFrom(jwks.keys, kid, 1)

\* assertIsJwk: TRUE when the value passes.
assertIsJwk(jwk) ==
    /\ jwk.t = "object"
    /\ jwk.kty \notin {NoKid, NonString}
    /\ jwk.kid # NonString
    /\ jwk.n # NonString

\* assertIsJwks: TRUE when the value passes.
assertIsJwks(json) ==
    /\ json.t = "object"
    /\ json.hasKeys
    /\ json.keysIsArray
    /\ \A i \in 1..Len(json.keys) : assertIsJwk(json.keys[i])

\* The error assertIsJwks raises for a value that does not pass.
JwksError(json) ==
    IF json.t # "object" \/ ~json.hasKeys \/ ~json.keysIsArray
    THEN "JwksValidationError" ELSE "JwkValidationError"

\* parseJwks: decode, parse and validate the bytes of a response.
parseJwks(body) ==
    IF body.t = "notjson" THEN Err("JwksValidationError")
    ELSE IF assertIsJwks(body) THEN OkJwks(body)
    ELSE Err(JwksError(body))

\* fetcher.fetch(uri).then(jwksParser): what the promise settles with.
jwksPromiseResult(resp) ==
    IF resp.net = "error" THEN Err("FetchError") ELSE parseJwks(resp.body)

(* ------------------------------ state ---------------------------------- *)
VARIABLES
    jwksCache,      \* SimpleJwksCache.jwksCache: uri -> JWKS or Absent
    fetchingJwks,   \* SimpleJwksCache.fetchingJwks: uri -> index in fetches, 0 = no entry
    fetches,        \* the promises fetcher.fetch(uri).then(jwksParser) created so far
    calls,          \* the calls made so far, in the order in which they were made
    waitingUris,    \* SimplePenaltyBox.waitingUris: uri -> id of a timer, 0 = no entry
    timers,         \* the timers that setTimeoutUnref started and that are still running
    sinceFail,      \* history: seconds since the last registerFailedAttempt(uri),
                    \* counted up to WaitSeconds, -1 = there was none
    succSince,      \* history: registerSuccessfulAttempt(uri) after the last failed one
    firedSince      \* history: a timer of uri fired after the last failed attempt

vars == <<jwksCache, fetchingJwks, fetches, calls, waitingUris, timers,
          sinceFail, succSince, firedSince>>

cacheVars == <<jwksCache, fetchingJwks, fetches, calls>>
boxVars == <<waitingUris, timers, sinceFail, succSince, firedSince>>

Init ==
    /\ jwksCache = [u \in Uris |-> Absent]
    /\ fetchingJwks = [u \in Uris |-> 0]
    /\ fetches = <<>>
    /\ calls = <<>>
    /\ waitingUris = [u \in Uris |-> 0]
    /\ timers = {}
    /\ sinceFail = [u \in Uris |-> -1]
    /\ succSince = [u \in Uris |-> FALSE]
    /\ firedSince = [u \in Uris |-> FALSE]

(* --------------------------- SimplePenaltyBox --------------------------- *)
\* wait(jwksUri): TRUE when it throws WaitPeriodNotYetEndedJwkError.
waitThrows(u) == waitingUris[u] # 0

\* The identifier setTimeoutUnref returns: one that no running timer has.
NewTimerId == CHOOSE i \in 1..(Cardinality(timers) + 1) : \A t \in timers : t.id # i

\* release(jwksUri): clear the timer the map holds for the uri, drop the entry.
release(u) ==
    LET i == waitingUris[u] IN
    /\ timers' = IF i # 0 THEN {t \in timers : t.id # i} ELSE timers
    /\ waitingUris' = [waitingUris EXCEPT ![u] = 0]

\* Mutant: the timer is started but not stored in the map.
registerFailedAttempt_NotStored(u) ==
    /\ timers' = timers \cup {[id |-> NewTimerId, uri |-> u, left |-> WaitSeconds]}
    /\ waitingUris' = waitingUris
    /\ sinceFail' = [sinceFail EXCEPT ![u] = 0]
    /\ succSince' = [succSince EXCEPT ![u] = FALSE]
    /\ firedSince' = [firedSince EXCEPT ![u] = FALSE]

\* Mutant: the failed attempt puts every uri in the box.
registerFailedAttempt_EveryUri(u) ==
    /\ timers' = timers \cup {[id |-> NewTimerId, uri |-> u, left |-> WaitSeconds]}
    /\ waitingUris' = [v \in Uris |-> NewTimerId]
    /\ sinceFail' = [sinceFail EXCEPT ![u] = 0]
    /\ succSince' = [succSince EXCEPT ![u] = FALSE]
    /\ firedSince' = [firedSince EXCEPT ![u] = FALSE]

\* registerFailedAttempt(jwksUri): start a timer and store it, whatever the
\* map held for the uri before.
registerFailedAttempt(u) ==
    /\ timers' = timers \cup {[id |-> NewTimerId, uri |-> u, left |-> WaitSeconds]}
    /\ waitingUris' = [waitingUris EXCEPT ![u] = NewTimerId]
    /\ sinceFail' = [sinceFail EXCEPT ![u] = 0]
    /\ succSince' = [succSince EXCEPT ![u] = FALSE]
    /\ firedSince' = [firedSince EXCEPT ![u] = FALSE]

\* registerSuccessfulAttempt(jwksUri)
registerSuccessfulAttempt(u) ==
    /\ release(u)
    /\ succSince' = [succSince EXCEPT ![u] = TRUE]
    /\ UNCHANGED <<sinceFail, firedSince>>

\* this.waitingUris after the callback of a timer of the uri has run.
waitingAfterTimeout(t) == [waitingUris EXCEPT ![t.uri] = 0]

\* The callback of timer t runs: it deletes the entry of its uri.
TimerFires(t) ==
    /\ t \in timers
    /\ t.left = 0
    /\ timers' = timers \ {t}
    /\ waitingUris' = waitingAfterTimeout(t)
    /\ firedSince' = [firedSince EXCEPT ![t.uri] = TRUE]
    /\ UNCHANGED <<sinceFail, succSince>>
    /\ UNCHANGED cacheVars

\* A second passes.  A timer runs in the second in which it is due.
Tick ==
    /\ \A t \in timers : t.left > 0
    /\ timers' = {[t EXCEPT !.left = @ - 1] : t \in timers}
    /\ sinceFail' = [u \in Uris |->
                    IF sinceFail[u] = -1 \/ sinceFail[u] = WaitSeconds
                    THEN sinceFail[u] ELSE sinceFail[u] + 1]
    /\ UNCHANGED <<waitingUris, succSince, firedSince>>
    /\ UNCHANGED cacheVars

\* The uri is within waitSeconds of its last failed attempt.
InWindow(u) == sinceFail[u] # -1 /\ sinceFail[u] < WaitSeconds

(* --------------------------- SimpleJwksCache ---------------------------- *)
\* The record of a call, with what held when it was made.
NewCall(op, u, kid) ==
    [op |-> op, uri |-> u, kid |-> kid, pc |-> "done", fetch |-> 0,
     jwks |-> Pending, ret |-> Pending, trace |-> <<>>,
     fresh |-> /\ jwksCache[u] = Absent
               /\ \A d \in DOMAIN calls : calls[d].pc # "done"]

\* addJwks(jwksUri, jwks)
addJwks(u, j) ==
    /\ jwksCache' = [jwksCache EXCEPT ![u] = j]
    /\ calls' = Append(calls, [NewCall("addJwks", u, NoKid) EXCEPT !.jwks = OkJwks(j)])
    /\ UNCHANGED <<fetchingJwks, fetches, boxVars>>

\* Mutant: the cache is looked at before the kid of the header.
getCachedJwkResult_CacheFirst(u, kid) ==
    IF jwksCache[u] = Absent THEN Err("JwksNotAvailableInCacheError")
    ELSE IF kid = NoKid THEN Err("JwtWithoutValidKidError")
    ELSE IF findJwkInJwks(jwksCache[u], kid) = Absent THEN Err("KidNotFoundInJwksError")
    ELSE OkJwk(findJwkInJwks(jwksCache[u], kid))

\* The outcome of getCachedJwk(jwksUri, decomposedJwt).
getCachedJwkResult(u, kid) ==
    IF kid = NoKid THEN Err("JwtWithoutValidKidError")
    ELSE IF jwksCache[u] = Absent THEN Err("JwksNotAvailableInCacheError")
    ELSE IF findJwkInJwks(jwksCache[u], kid) = Absent THEN Err("KidNotFoundInJwksError")
    ELSE OkJwk(findJwkInJwks(jwksCache[u], kid))

\* Mutant: a kid that is not found drops the cached JWKS of the uri.
getCachedJwk_EvictOnMiss(u, kid) ==
    /\ calls' = Append(calls, [NewCall("getCachedJwk", u, kid) EXCEPT
                                  !.ret = getCachedJwkResult(u, kid)])
    /\ jwksCache' = IF getCachedJwkResult(u, kid) = Err("KidNotFoundInJwksError")
                    THEN [jwksCache EXCEPT ![u] = Absent] ELSE jwksCache
    /\ UNCHANGED <<fetchingJwks, fetches, boxVars>>

\* Mutant: a kid that is not found is reported to the penalty box.
getCachedJwk_RegistersMiss(u, kid) ==
    /\ calls' = Append(calls, [NewCall("getCachedJwk", u, kid) EXCEPT
                                  !.ret = getCachedJwkResult(u, kid)])
    /\ IF getCachedJwkResult(u, kid) = Err("KidNotFoundInJwksError")
       THEN registerFailedAttempt(u) ELSE UNCHANGED boxVars
    /\ UNCHANGED <<jwksCache, fetchingJwks, fetches>>

\* getCachedJwk(jwksUri, decomposedJwt)
getCachedJwk(u, kid) ==
    /\ calls' = Append(calls, [NewCall("getCachedJwk", u, kid) EXCEPT
                                  !.ret = getCachedJwkResult(u, kid)])
    /\ UNCHANGED <<jwksCache, fetchingJwks, fetches, boxVars>>

\* calls with the record of call c set to r; c is a call already made or
\* the call being made.
Put(c, r) == IF c = Len(calls) + 1 THEN Append(calls, r) ELSE [calls EXCEPT ![c] = r]

\* Mutant: getJwks does not look for a pending fetch.
existingFetch_Ignored(u) == 0

\* this.fetchingJwks.get(jwksUri): 0 when there is no entry.
existingFetch(u) == fetchingJwks[u]

\* The promise fetcher.fetch(jwksUri).then(this.jwksParser) that call c makes.
NewFetch(u, c) ==
    [uri |-> u, state |-> "pending", result |-> Pending, owner |-> c,
     ownerDone |-> FALSE]

\* getJwks up to its await, in call c with record rec: join the pending
\* fetch of the uri, or start a fetch and mark the uri as fetching.
getJwksStart(c, rec) ==
    LET f == existingFetch(rec.uri) IN
    IF f # 0
    THEN /\ calls' = Put(c, [rec EXCEPT !.pc = "awaitShared", !.fetch = f,
                                        !.trace = Append(rec.trace, "join")])
         /\ UNCHANGED <<fetches, fetchingJwks>>
    ELSE /\ fetches' = Append(fetches, NewFetch(rec.uri, c))
         /\ fetchingJwks' = [fetchingJwks EXCEPT ![rec.uri] = Len(fetches) + 1]
         /\ calls' = Put(c, [rec EXCEPT !.pc = "awaitFetch",
                                        !.fetch = Len(fetches) + 1,
                                        !.trace = Append(rec.trace, "fetch")])

\* Mutant: getJwks returns the cached JWKS of the uri when there is one.
GetJwksCall_ReturnsCached(u) ==
    /\ IF jwksCache[u] # Absent
       THEN /\ calls' = Append(calls, [NewCall("getJwks", u, NoKid) EXCEPT
                                          !.ret = OkJwks(jwksCache[u])])
            /\ UNCHANGED <<fetches, fetchingJwks>>
       ELSE getJwksStart(Len(calls) + 1, NewCall("getJwks", u, NoKid))
    /\ UNCHANGED <<jwksCache, boxVars>>

\* A caller calls getJwks(jwksUri).
GetJwksCall(u) ==
    /\ getJwksStart(Len(calls) + 1, NewCall("getJwks", u, NoKid))
    /\ UNCHANGED <<jwksCache, boxVars>>

\* Mutant: getJwk asks the penalty box before it looks in the cache.
GetJwkCall_WaitBeforeCache(u, kid) ==
    /\ LET hit == IF kid = NoKid \/ jwksCache[u] = Absent THEN Absent
                  ELSE findJwkInJwks(jwksCache[u], kid)
           rec == NewCall("getJwk", u, kid) IN
       calls' = Append(calls,
           IF kid = NoKid
           THEN [rec EXCEPT !.ret = Err("JwtWithoutValidKidError")]
           ELSE IF waitThrows(u)
           THEN [rec EXCEPT !.trace = <<"wait">>,
                            !.ret = Err("WaitPeriodNotYetEndedJwkError")]
           ELSE IF hit # Absent
           THEN [rec EXCEPT !.ret = OkJwk(hit)]
           ELSE [rec EXCEPT !.pc = "awaitWait", !.trace = <<"wait">>])
    /\ UNCHANGED <<jwksCache, fetchingJwks, fetches, boxVars>>

\* The record of a call of getJwk(jwksUri, decomposedJwt) when it has run up
\* to the await of penaltyBox.wait.
getJwkStart(u, kid) ==
    LET hit == IF kid = NoKid \/ jwksCache[u] = Absent THEN Absent
               ELSE findJwkInJwks(jwksCache[u], kid)
        rec == NewCall("getJwk", u, kid) IN
    IF kid = NoKid
    THEN [rec EXCEPT !.ret = Err("JwtWithoutValidKidError")]
    ELSE IF hit # Absent
    THEN [rec EXCEPT !.ret = OkJwk(hit)]
    ELSE IF waitThrows(u)
    THEN [rec EXCEPT !.trace = <<"wait">>,
                     !.ret = Err("WaitPeriodNotYetEndedJwkError")]
    ELSE [rec EXCEPT !.pc = "awaitWait", !.trace = <<"wait">>]

\* A caller calls getJwk(jwksUri, decomposedJwt): the code up to the await of
\* penaltyBox.wait.
GetJwkCall(u, kid) ==
    /\ calls' = Append(calls, getJwkStart(u, kid))
    /\ UNCHANGED <<jwksCache, fetchingJwks, fetches, boxVars>>

\* getJwk resumes after penaltyBox.wait and calls getJwks.
GetJwkAfterWait(c) ==
    /\ c \in DOMAIN calls
    /\ calls[c].pc = "awaitWait"
    /\ getJwksStart(c, calls[c])
    /\ UNCHANGED <<jwksCache, boxVars>>

\* The promise of a fetch settles: the fetcher answers and the parser runs.
FetchSettles(f, resp) ==
    /\ f \in DOMAIN fetches
    /\ fetches[f].state = "pending"
    /\ LET r == jwksPromiseResult(resp) IN
       fetches' = [fetches EXCEPT ![f].state = IF r.kind = "jwks" THEN "fulfilled"
                                               ELSE "rejected",
                                  ![f].result = r]
    /\ UNCHANGED <<jwksCache, fetchingJwks, calls, boxVars>>

\* The call record after getJwks has settled with r: a getJwk call goes on
\* with r when it is a JWKS, every other call ends with r.
AfterGetJwks(rec, r) ==
    IF r.kind = "jwks" /\ rec.op = "getJwk"
    THEN [rec EXCEPT !.jwks = r, !.pc = "afterGetJwks"]
    ELSE [rec EXCEPT !.jwks = r, !.pc = "done", !.ret = r]

\* Mutant: a failed refresh drops the cached JWKS of the uri.
cacheAfterFetch_EvictOnFailure(u, r) ==
    IF r.kind = "jwks" THEN [jwksCache EXCEPT ![u] = r.jwks]
    ELSE [jwksCache EXCEPT ![u] = Absent]

\* Mutant: a fetched JWKS fills an empty entry only.
cacheAfterFetch_KeepExisting(u, r) ==
    IF r.kind = "jwks" /\ jwksCache[u] = Absent
    THEN [jwksCache EXCEPT ![u] = r.jwks] ELSE jwksCache

\* this.jwksCache after getJwks has awaited the promise of the uri, which
\* settled with r: set when r is a JWKS, untouched when the await threw.
cacheAfterFetch(u, r) ==
    IF r.kind = "jwks" THEN [jwksCache EXCEPT ![u] = r.jwks] ELSE jwksCache

\* Mutant: a call that joined gets every failure as a fetch error.
sharedOutcome_Rewrapped(f) ==
    IF fetches[f].result.kind = "error" THEN Err("FetchError") ELSE fetches[f].result

\* What a call that joined fetch f gets from the promise it was handed.
sharedOutcome(f) == fetches[f].result

\* getJwks resumes in the call that started the fetch: the finally block,
\* the cache update and the return (or the rethrow).
GetJwksResume_MarkKeptOnFailure(c) ==
    /\ c \in DOMAIN calls
    /\ calls[c].pc = "awaitFetch"
    /\ LET f == calls[c].fetch
           u == calls[c].uri
           r == fetches[f].result IN
       /\ fetches[f].state # "pending"
       /\ fetchingJwks' = IF r.kind = "jwks"
                          THEN [fetchingJwks EXCEPT ![u] = 0] ELSE fetchingJwks
       /\ fetches' = [fetches EXCEPT ![f].ownerDone = TRUE]
       /\ jwksCache' = cacheAfterFetch(u, r)
       /\ calls' = [calls EXCEPT ![c] = AfterGetJwks(calls[c], r)]
    /\ UNCHANGED boxVars

GetJwksResume_FailureRegistered(c) ==
    /\ c \in DOMAIN calls
    /\ calls[c].pc = "awaitFetch"
    /\ LET f == calls[c].fetch
           u == calls[c].uri
           r == fetches[f].result IN
       /\ fetches[f].state # "pending"
       /\ fetchingJwks' = [fetchingJwks EXCEPT ![u] = 0]
       /\ fetches' = [fetches EXCEPT ![f].ownerDone = TRUE]
       /\ jwksCache' = cacheAfterFetch(u, r)
       /\ calls' = [calls EXCEPT ![c] = AfterGetJwks(calls[c], r)]
    /\ IF calls[c].op = "getJwk" /\ fetches[calls[c].fetch].result.kind = "error"
       THEN registerFailedAttempt(calls[c].uri)
       ELSE UNCHANGED boxVars

GetJwksResume(c) ==
    /\ c \in DOMAIN calls
    /\ calls[c].pc = "awaitFetch"
    /\ LET f == calls[c].fetch
           u == calls[c].uri
           r == fetches[f].result IN
       /\ fetches[f].state # "pending"
       /\ fetchingJwks' = [fetchingJwks EXCEPT ![u] = 0]
       /\ fetches' = [fetches EXCEPT ![f].ownerDone = TRUE]
       /\ jwksCache' = cacheAfterFetch(u, r)
       /\ calls' = [calls EXCEPT ![c] = AfterGetJwks(calls[c], r)]
    /\ UNCHANGED boxVars

\* A call that joined a fetch receives the outcome of the shared promise.
GetJwksShared(c) ==
    /\ c \in DOMAIN calls
    /\ calls[c].pc = "awaitShared"
    /\ LET f == calls[c].fetch IN
       /\ fetches[f].state # "pending"
       /\ fetches[f].ownerDone
       /\ calls' = [calls EXCEPT ![c] = AfterGetJwks(calls[c], sharedOutcome(f))]
    /\ UNCHANGED <<jwksCache, fetchingJwks, fetches, boxVars>>

\* The call that started the fetch of call c was the first to await its
\* promise, so it has gone on before a call that joined the fetch goes on.
OwnerFirst(c) ==
    LET o == fetches[calls[c].fetch].owner IN
    o = c \/ calls[o].pc = "done"

\* Mutant: a kid that is not found raises the error without telling the
\* penalty box.
GetJwkLocate_MissNotRegistered(c) ==
    /\ c \in DOMAIN calls
    /\ calls[c].pc = "afterGetJwks"
    /\ OwnerFirst(c)
    /\ LET u == calls[c].uri
           jwk == findJwkInJwks(calls[c].jwks.jwks, calls[c].kid) IN
       IF jwk = Absent
       THEN /\ UNCHANGED boxVars
            /\ calls' = [calls EXCEPT ![c].pc = "done",
                            ![c].ret = Err("KidNotFoundInJwksError")]
       ELSE /\ registerSuccessfulAttempt(u)
            /\ calls' = [calls EXCEPT ![c].pc = "done",
                            ![c].trace = Append(calls[c].trace, "registerSuccessfulAttempt"),
                            ![c].ret = OkJwk(jwk)]
    /\ UNCHANGED <<jwksCache, fetchingJwks, fetches>>

\* Mutant: a call that joined a fetch looks up the kid of the call that
\* started the fetch.
GetJwkLocate_StartersKid(c) ==
    /\ c \in DOMAIN calls
    /\ calls[c].pc = "afterGetJwks"
    /\ OwnerFirst(c)
    /\ LET u == calls[c].uri
           o == fetches[calls[c].fetch].owner
           jwk == findJwkInJwks(calls[c].jwks.jwks, calls[o].kid) IN
       IF jwk = Absent
       THEN /\ registerFailedAttempt(u)
            /\ calls' = [calls EXCEPT ![c].pc = "done",
                            ![c].trace = Append(calls[c].trace, "registerFailedAttempt"),
                            ![c].ret = Err("KidNotFoundInJwksError")]
       ELSE /\ registerSuccessfulAttempt(u)
            /\ calls' = [calls EXCEPT ![c].pc = "done",
                            ![c].trace = Append(calls[c].trace, "registerSuccessfulAttempt"),
                            ![c].ret = OkJwk(jwk)]
    /\ UNCHANGED <<jwksCache, fetchingJwks, fetches>>

\* getJwk resumes after getJwks: locate the kid and tell the penalty box.
GetJwkLocate(c) ==
    /\ c \in DOMAIN calls
    /\ calls[c].pc = "afterGetJwks"
    /\ OwnerFirst(c)
    /\ LET u == calls[c].uri
           jwk == findJwkInJwks(calls[c].jwks.jwks, calls[c].kid) IN
       IF jwk = Absent
       THEN /\ registerFailedAttempt(u)
            /\ calls' = [calls EXCEPT ![c].pc = "done",
                            ![c].trace = Append(calls[c].trace, "registerFailedAttempt"),
                            ![c].ret = Err("KidNotFoundInJwksError")]
       ELSE /\ registerSuccessfulAttempt(u)
            /\ calls' = [calls EXCEPT ![c].pc = "done",
                            ![c].trace = Append(calls[c].trace, "registerSuccessfulAttempt"),
                            ![c].ret = OkJwk(jwk)]
    /\ UNCHANGED <<jwksCache, fetchingJwks, fetches>>

(* ---------------------------- specifications ---------------------------- *)
\* The steps every call takes once it was made, the timers and the clock.
Progress ==
    \/ \E c \in DOMAIN calls : GetJwkAfterWait(c)
    \/ \E c \in DOMAIN calls : GetJwksResume(c)
    \/ \E c \in DOMAIN calls : GetJwksShared(c)
    \/ \E c \in DOMAIN calls : GetJwkLocate(c)
    \/ \E t \in timers : TimerFires(t)
    \/ Tick

\* The arguments of the calls in a run of Spec: every kind of header for the
\* first uri, and a second uri that is read, written and fetched as well.
GetJwkInputs == {<<"u1", "k1">>, <<"u1", "k2">>, <<"u1", NoKid>>, <<"u2", "k2">>}
AddJwksInputs == {<<"u1", J1new>>, <<"u2", J12>>}
GetCachedJwkInputs == {<<"u1", "k1">>, <<"u1", "k2">>, <<"u1", NoKid>>, <<"u2", "k1">>}

\* The cache with its penalty box, called by any callers.
Next ==
    \/ Len(calls) < MaxCalls /\ \E in \in GetJwkInputs : GetJwkCall(in[1], in[2])
    \/ Len(calls) < MaxCalls /\ \E u \in Uris : GetJwksCall(u)
    \/ Len(calls) < MaxCalls /\ \E in \in AddJwksInputs : addJwks(in[1], in[2])
    \/ Len(calls) < MaxCalls /\ \E in \in GetCachedJwkInputs : getCachedJwk(in[1], in[2])
    \/ \E f \in DOMAIN fetches, resp \in Responses : FetchSettles(f, resp)
    \/ Progress

Spec == Init /\ [][Next]_vars

\* The penalty box at work: getJwk calls for one uri whose server publishes
\* a JWKS with the first kid only.
NextPenalty ==
    \/ Len(calls) < MaxAttempts /\ \E kid \in Kids : GetJwkCall("u1", kid)
    \/ \E f \in DOMAIN fetches : FetchSettles(f, Body(J1))
    \/ Progress

SpecPenalty == Init /\ [][NextPenalty]_vars

(* ------------------- SimplePenaltyBox called directly ------------------- *)
Void == [kind |-> "void"]

\* A caller calls wait(jwksUri).
BoxWait(u) ==
    /\ calls' = Append(calls,
          [op |-> "wait", uri |-> u,
           ret |-> IF waitThrows(u) THEN Err("WaitPeriodNotYetEndedJwkError") ELSE Void,
           afterFail |-> InWindow(u) /\ ~succSince[u],
           afterSuccess |-> sinceFail[u] # -1 /\ succSince[u]])
    /\ UNCHANGED <<jwksCache, fetchingJwks, fetches, boxVars>>

\* A caller calls registerFailedAttempt(jwksUri).
BoxRegisterFailedAttempt(u) ==
    /\ registerFailedAttempt(u)
    /\ calls' = Append(calls, [op |-> "registerFailedAttempt", uri |-> u])
    /\ UNCHANGED <<jwksCache, fetchingJwks, fetches>>

\* A caller calls registerSuccessfulAttempt(jwksUri).
BoxRegisterSuccessfulAttempt(u) ==
    /\ registerSuccessfulAttempt(u)
    /\ calls' = Append(calls, [op |-> "registerSuccessfulAttempt", uri |-> u])
    /\ UNCHANGED <<jwksCache, fetchingJwks, fetches>>

NextBox ==
    \/ Len(calls) < MaxBoxCalls /\ \E u \in Uris : BoxWait(u)
    \/ Len(calls) < MaxBoxCalls /\ \E u \in Uris : BoxRegisterFailedAttempt(u)
    \/ Len(calls) < MaxBoxCalls /\ \E u \in Uris : BoxRegisterSuccessfulAttempt(u)
    \/ \E t \in timers : TimerFires(t)
    \/ Tick

SpecBox == Init /\ [][NextBox]_vars

(* ----------- SimplePenaltyBox called as a PenaltyBox, with a kid --------- *)
\* A caller calls wait(jwksUri, kid): SimplePenaltyBox.wait takes the uri only.
BoxWaitKid(u, kid) ==
    /\ calls' = Append(calls,
          [op |-> "wait", uri |-> u, kid |-> kid,
           ret |-> IF waitThrows(u) THEN Err("WaitPeriodNotYetEndedJwkError") ELSE Void])
    /\ UNCHANGED <<jwksCache, fetchingJwks, fetches, boxVars>>

\* A caller calls registerFailedAttempt(jwksUri, kid).
BoxRegisterFailedAttemptKid(u, kid) ==
    /\ registerFailedAttempt(u)
    /\ calls' = Append(calls, [op |-> "registerFailedAttempt", uri |-> u, kid |-> kid])
    /\ UNCHANGED <<jwksCache, fetchingJwks, fetches>>

\* A caller calls registerSuccessfulAttempt(jwksUri, kid).
BoxRegisterSuccessfulAttemptKid(u, kid) ==
    /\ registerSuccessfulAttempt(u)
    /\ calls' = Append(calls, [op |-> "registerSuccessfulAttempt", uri |-> u, kid |-> kid])
    /\ UNCHANGED <<jwksCache, fetchingJwks, fetches>>

NextBoxKid ==
    \/ Len(calls) < MaxKidCalls /\ \E u \in Uris, kid \in Kids : BoxWaitKid(u, kid)
    \/ Len(calls) < MaxKidCalls
          /\ \E u \in Uris, kid \in Kids : BoxRegisterFailedAttemptKid(u, kid)
    \/ Len(calls) < MaxKidCalls
          /\ \E u \in Uris, kid \in Kids : BoxRegisterSuccessfulAttemptKid(u, kid)
    \/ \E t \in timers : TimerFires(t)
    \/ Tick

SpecBoxKid == Init /\ [][NextBoxKid]_vars

(* ------------------ lookups by kid, any kid and JWKS -------------------- *)
\* The arguments of the calls in a run of SpecKid: headers whose kid is a
\* name or the empty string, and JWKS with a key without kid, a key with the
\* empty kid and two keys with the same kid.
KidGetJwkInputs == {<<"u1", "k1">>, <<"u1", EmptyKid>>}
KidCachedInputs == {<<"u1", "k1">>, <<"u1", EmptyKid>>, <<"u2", "k1">>}
KidAddInputs == {<<"u1", JDup>>, <<"u2", J2>>}
KidResponses == {Body(JDup), Body(J2)}

NextKid ==
    \/ Len(calls) < MaxLookups /\ \E in \in KidGetJwkInputs : GetJwkCall(in[1], in[2])
    \/ Len(calls) < MaxLookups /\ \E in \in KidCachedInputs : getCachedJwk(in[1], in[2])
    \/ Len(calls) < MaxLookups /\ \E in \in KidAddInputs : addJwks(in[1], in[2])
    \/ \E f \in DOMAIN fetches, resp \in KidResponses : FetchSettles(f, resp)
    \/ Progress

SpecKid == Init /\ [][NextKid]_vars

(* ----------------------------- AlbJwtVerifier --------------------------- *)
\* A JWT as the verifier sees it: whether it can be decomposed, the kid,
\* signer and client of its header, whether its signature is that of the key
\* with its kid, and whether its payload passes the claim validator.
Jwt(kid, sig, claims, signer, client) ==
    [wellFormed |-> TRUE, kid |-> kid, sig |-> sig, claims |-> claims,
     signer |-> signer, client |-> client]

Undefined == [t |-> "undefined"]
Null == [t |-> "null"]
Str(v) == [t |-> "string", v |-> v]
List(v) == [t |-> "list", v |-> v]

\* Verification properties after the merge of the overrides of the call.
Props(albArn, clientId, raw) ==
    [albArn |-> albArn, clientId |-> clientId, includeRawJwtInErrors |-> raw,
     customJwtCheck |-> "none"]

\* The properties with a customJwtCheck that returns ("passes") or throws
\* ("throws").
WithCustomJwtCheck(props, check) == [props EXCEPT !.customJwtCheck = check]

JwksUri == "u1"        \* the jwksUri of the issuer configuration
Payload == [kind |-> "payload"]

\* err.withRawJwt(decomposedJwt): the error with the property rawJwt.
withRawJwt(err, jwt) == err @@ [rawJwt |-> jwt]

\* assertStringArrayContainsString(name, actual, expected): TRUE when it
\* passes, that is when actual is a string that is expected or one of them.
assertStringArrayContainsString(actual, expected) ==
    /\ actual \notin {NoKid, NonString}
    /\ IF expected.t = "list"
       THEN \E i \in 1..Len(expected.v) : expected.v[i] = actual
       ELSE expected.v = actual

\* The error of a check of validateAlbJwtFields: its message names what was
\* checked.
AlbErr(e, name) == [kind |-> "error", err |-> e, name |-> name]

\* validateAlbJwtFields(header, options): Void when it returns, else the
\* error it throws.
validateAlbJwtFields_ClientFirst(header, options) ==
    IF options.clientId # Null /\ options.clientId = Undefined
    THEN AlbErr("ParameterValidationError", "clientId")
    ELSE IF options.clientId # Null
            /\ ~assertStringArrayContainsString(header.client, options.clientId)
    THEN AlbErr("JwtInvalidClaimError", "Client ID")
    ELSE IF options.albArn # Null /\ options.albArn = Undefined
    THEN AlbErr("ParameterValidationError", "albArn")
    ELSE IF options.albArn # Null
            /\ ~assertStringArrayContainsString(header.signer, options.albArn)
    THEN AlbErr("JwtInvalidClaimError", "ALB ARN")
    ELSE Void

validateAlbJwtFields(header, options) ==
    IF options.albArn # Null /\ options.albArn = Undefined
    THEN AlbErr("ParameterValidationError", "albArn")
    ELSE IF options.albArn # Null
            /\ ~assertStringArrayContainsString(header.signer, options.albArn)
    THEN AlbErr("JwtInvalidClaimError", "ALB ARN")
    ELSE IF options.clientId # Null /\ options.clientId = Undefined
    THEN AlbErr("ParameterValidationError", "clientId")
    ELSE IF options.clientId # Null
            /\ ~assertStringArrayContainsString(header.client, options.clientId)
    THEN AlbErr("JwtInvalidClaimError", "Client ID")
    ELSE Void

\* The errors that are instances of JwtInvalidClaimError.
ClaimErrors == {"JwtInvalidClaimError", "JwtExpiredError"}

\* getVerifyParameters(jwt, properties): decomposes the JWT and merges the
\* properties of the call onto the configuration; props is the merged
\* verifyProperties, in which a property that was given neither at creation
\* nor in the call is Undefined. Void when it returns, else the error it
\* throws. The check that albArn and clientId were given is that of
\* validateAlbJwtFields.
getVerifyParameters(jwt, props) ==
    IF ~jwt.wellFormed THEN Err("JwtParseError")
    ELSE Void

\* The signature of the JWT is that of the JWK.
verifySignature(jwt, jwk) == jwt.sig = jwk.n

\* verifyDecomposedJwt once the signature verification has settled: the
\* claim validator runs if the signature is valid, and its error is given
\* the rawJwt if includeRawJwtInErrors is set.
validateJwtFields(jwt, props, jwk) ==
    IF ~verifySignature(jwt, jwk)
    THEN [ret |-> Err("JwtInvalidSignatureError"), trace |-> <<"verifySignature">>]
    ELSE IF jwt.claims # "ok"
    THEN [ret |-> IF props.includeRawJwtInErrors
                  THEN withRawJwt(Err(jwt.claims), jwt) ELSE Err(jwt.claims),
          trace |-> <<"verifySignature", "validateJwtFields">>]
    ELSE IF props.customJwtCheck = "none"
    THEN [ret |-> Void, trace |-> <<"verifySignature", "validateJwtFields">>]
    ELSE [ret |-> IF props.customJwtCheck = "throws"
                  THEN Err("CustomJwtCheckError") ELSE Void,
          trace |-> <<"verifySignature", "validateJwtFields", "customJwtCheck">>]

\* The catch block of verify and verifySync around validateAlbJwtFields.
albCatch_AnyError(err, jwt, props) ==
    IF props.includeRawJwtInErrors THEN withRawJwt(err, jwt) ELSE err

albCatch(err, jwt, props) ==
    IF props.includeRawJwtInErrors /\ err.err \in ClaimErrors
    THEN withRawJwt(err, jwt)
    ELSE err

\* verify and verifySync after verifyDecomposedJwt[Sync] has settled with
\* base: its error is thrown on, else validateAlbJwtFields runs and the
\* payload is returned.
albVerify_HeaderFirst(jwt, props, base) ==
    LET alb == validateAlbJwtFields(jwt, props) IN
    IF alb.kind = "error"
    THEN [ret |-> albCatch(alb, jwt, props),
          trace |-> <<"validateAlbJwtFields">>]
    ELSE IF base.ret.kind = "error"
    THEN [ret |-> base.ret, trace |-> <<"validateAlbJwtFields">> \o base.trace]
    ELSE [ret |-> Payload, trace |-> <<"validateAlbJwtFields">> \o base.trace]

albVerify(jwt, props, base) ==
    LET alb == validateAlbJwtFields(jwt, props) IN
    IF base.ret.kind = "error" THEN base
    ELSE IF alb.kind = "error"
    THEN [ret |-> albCatch(alb, jwt, props),
          trace |-> base.trace \o <<"validateAlbJwtFields">>]
    ELSE [ret |-> Payload, trace |-> base.trace \o <<"validateAlbJwtFields">>]

\* The record of a call of verify or verifySync.
VerifyRecord(op, jwt, props) ==
    [NewCall(op, JwksUri, jwt.kid) EXCEPT !.trace = <<"getVerifyParameters">>]
        @@ [jwt |-> jwt, props |-> props, jwkCall |-> 0]

\* verifySync(jwt, properties): the whole call, with the JWK from
\* getCachedJwk.
VerifySyncCall_NoRawJwt(jwt, props) ==
    /\ LET rec == VerifyRecord("verifySync", jwt, props)
           par == getVerifyParameters(jwt, props)
           got == getCachedJwkResult(JwksUri, jwt.kid)
           out == albVerify(jwt, props, validateJwtFields(jwt, props, got.jwk)) IN
       calls' = Append(calls,
           IF par.kind = "error" THEN [rec EXCEPT !.ret = par]
           ELSE IF got.kind = "error"
           THEN [rec EXCEPT !.ret = got, !.trace = @ \o <<"getJwk">>]
           ELSE [rec EXCEPT !.ret = IF out.ret.kind = "error"
                                       THEN Err(out.ret.err) ELSE out.ret,
                            !.jwks = got,
                            !.trace = @ \o <<"getJwk">> \o out.trace])
    /\ UNCHANGED <<jwksCache, fetchingJwks, fetches, boxVars>>

VerifySyncCall(jwt, props) ==
    /\ LET rec == VerifyRecord("verifySync", jwt, props)
           par == getVerifyParameters(jwt, props)
           got == getCachedJwkResult(JwksUri, jwt.kid)
           out == albVerify(jwt, props, validateJwtFields(jwt, props, got.jwk)) IN
       calls' = Append(calls,
           IF par.kind = "error" THEN [rec EXCEPT !.ret = par]
           ELSE IF got.kind = "error"
           THEN [rec EXCEPT !.ret = got, !.trace = @ \o <<"getJwk">>]
           ELSE [rec EXCEPT !.ret = out.ret, !.jwks = got,
                            !.trace = @ \o <<"getJwk">> \o out.trace])
    /\ UNCHANGED <<jwksCache, fetchingJwks, fetches, boxVars>>

\* verify(jwt, properties): the code up to the await of getJwk, whose call
\* starts in the same step.
VerifyCall(jwt, props) ==
    /\ LET rec == VerifyRecord("verify", jwt, props)
           par == getVerifyParameters(jwt, props) IN
       calls' = IF par.kind = "error"
                THEN Append(calls, [rec EXCEPT !.ret = par])
                ELSE calls \o <<[rec EXCEPT !.pc = "awaitJwk",
                                            !.trace = @ \o <<"getJwk">>,
                                            !.jwkCall = Len(calls) + 2],
                                getJwkStart(JwksUri, jwt.kid)>>
    /\ UNCHANGED <<jwksCache, fetchingJwks, fetches, boxVars>>

\* verify continues when its getJwk has settled: its error is thrown on,
\* else the signature verification starts.
VerifyAfterJwk(c) ==
    /\ calls[c].op = "verify"
    /\ calls[c].pc = "awaitJwk"
    /\ calls[calls[c].jwkCall].pc = "done"
    /\ LET got == calls[calls[c].jwkCall].ret IN
       calls' = [calls EXCEPT ![c] =
           IF got.kind = "error"
           THEN [@ EXCEPT !.pc = "done", !.ret = got]
           ELSE [@ EXCEPT !.pc = "awaitSignature", !.jwks = got]]
    /\ UNCHANGED <<jwksCache, fetchingJwks, fetches, boxVars>>

\* verify continues when the signature verification has settled.
VerifyAfterSignature(c) ==
    /\ calls[c].op = "verify"
    /\ calls[c].pc = "awaitSignature"
    /\ LET rec == calls[c]
           out == albVerify(rec.jwt, rec.props,
                            validateJwtFields(rec.jwt, rec.props, rec.jwks.jwk)) IN
       calls' = [calls EXCEPT ![c] =
           [@ EXCEPT !.pc = "done", !.ret = out.ret, !.trace = @ \o out.trace]]
    /\ UNCHANGED <<jwksCache, fetchingJwks, fetches, boxVars>>

PArn == Str("arn1")
PClients == List(<<"c1", "c2">>)
TGood == Jwt("k1", "n1", "ok", "arn1", "c2")
TBadSig == Jwt("k1", "nX", "JwtExpiredError", "arnX", "cX")
TExpired == Jwt("k1", "n1", "JwtExpiredError", "arnX", "c1")
TBadSigner == Jwt("k1", "n1", "ok", "arnX", "c1")
TBadClient == Jwt("k1", "n1", "ok", "arn1", NoKid)
TUnknownKid == Jwt("k2", "n1", "ok", "arn1", "c1")
TNoKid == Jwt(NoKid, "n1", "ok", "arn1", "c1")
TMalformed == [TGood EXCEPT !.wellFormed = FALSE]

VerifyInputs ==
    ({TGood, TBadSig, TExpired, TBadSigner, TBadClient, TUnknownKid, TNoKid,
      TMalformed} \X {Props(PArn, PClients, TRUE)})
    \cup ({TExpired, TBadSigner} \X {Props(PArn, PClients, FALSE)})
    \cup ({TBadSigner} \X {Props(Undefined, PClients, TRUE), Props(Null, Null, TRUE)})
    \cup ({TGood, TBadSigner, TExpired}
            \X {WithCustomJwtCheck(Props(PArn, PClients, TRUE), "passes")})
    \cup ({TGood} \X {WithCustomJwtCheck(Props(PArn, PClients, TRUE), "throws")})
VerifySyncInputs ==
    ({TGood, TBadSig, TExpired, TBadSigner, TUnknownKid}
        \X {Props(PArn, PClients, TRUE)})
    \cup ({TBadSigner} \X {Props(PArn, PClients, FALSE)})
    \cup ({TGood, TBadSigner}
            \X {WithCustomJwtCheck(Props(PArn, PClients, TRUE), "passes")})
VerifyResponses == {Body(J1), NetworkError}

Verifies == {d \in DOMAIN calls : calls[d].op \in {"verify", "verifySync"}}

NextVerify ==
    \/ Cardinality(Verifies) < MaxVerifies
          /\ \E in \in VerifyInputs : VerifyCall(in[1], in[2])
    \/ Cardinality(Verifies) < MaxVerifies
          /\ \E in \in VerifySyncInputs : VerifySyncCall(in[1], in[2])
    \/ (\A d \in DOMAIN calls : calls[d].op # "addJwks") /\ addJwks(JwksUri, J1)
    \/ \E f \in DOMAIN fetches, resp \in VerifyResponses : FetchSettles(f, resp)
    \/ \E c \in DOMAIN calls : VerifyAfterJwk(c)
    \/ \E c \in DOMAIN calls : VerifyAfterSignature(c)
    \/ Progress

SpecVerify == Init /\ [][NextVerify]_vars

\* A call of validateAlbJwtFields(header, options) on its own.
ValidateAlbJwtFieldsCall(header, options) ==
    /\ calls' = Append(calls,
           [NewCall("validateAlbJwtFields", JwksUri, NoKid)
                EXCEPT !.ret = validateAlbJwtFields(header, options)]
           @@ [header |-> header, options |-> options])
    /\ UNCHANGED <<jwksCache, fetchingJwks, fetches, boxVars>>

HeaderValues == {"arn1", "arn2", "c1", NoKid, NonString}
AlbHeaders == [signer : HeaderValues, client : HeaderValues]
AlbArns == {Null, Undefined, Str("arn1"), List(<<"arn1", "arn2">>)}
ClientIds == {Null, Undefined, Str("c1"), List(<<"c2", "c1">>)}
AlbOptions == [albArn : AlbArns, clientId : ClientIds]

NextAlbFields ==
    Len(calls) < MaxValidations
      /\ \E header \in AlbHeaders, options \in AlbOptions :
            ValidateAlbJwtFieldsCall(header, options)

SpecAlbFields == Init /\ [][NextAlbFields]_vars

(* ================================ claims ================================ *)
\* The fetches of a uri, and those of them that have not settled.
FetchesOf(u) == {f \in DOMAIN fetches : fetches[f].uri = u}
Outstanding(u) == {f \in FetchesOf(u) : fetches[f].state = "pending"}

\* The last failed attempt of the uri is still in force: no successful
\* attempt was registered and no timer of the uri has run since.
MissOpen(u) == sinceFail[u] # -1 /\ ~succSince[u] /\ ~firedSince[u]

WaitError == Err("WaitPeriodNotYetEndedJwkError")
KidError == Err("KidNotFoundInJwksError")

\* This step is a call of getJwk for the uri that misses the cache.
GetJwkMissStep(u) ==
    /\ Len(calls') = Len(calls) + 1
    /\ calls'[Len(calls')].op = "getJwk"
    /\ calls'[Len(calls')].uri = u
    /\ calls'[Len(calls')].trace # <<>>

\* The call made in this step is rejected by the penalty box and no fetch starts.
RejectedStep ==
    /\ calls'[Len(calls')].pc = "done"
    /\ calls'[Len(calls')].ret = WaitError
    /\ calls'[Len(calls')].fetch = 0
    /\ fetches' = fetches

\* C1: for every uri at most one fetch is outstanding in every reachable
\* state, and while a fetch of a uri is outstanding no step starts another
\* fetch of that uri.
C1_SingleFlight ==
    /\ [](\A u \in Uris : Cardinality(Outstanding(u)) <= 1)
    /\ [][\A u \in Uris : Outstanding(u) # {} => FetchesOf(u)' = FetchesOf(u)]_vars

\* A call has joined a fetch that is still outstanding.
C1_Witness ==
    \E c \in DOMAIN calls :
        calls[c].pc = "awaitShared" /\ fetches[calls[c].fetch].state = "pending"

\* C2: when all the calls of a run are getJwk calls for one uri, each made
\* while the cache held no JWKS for the uri and before any of them had
\* completed, then once they have all completed, and even when no fetch
\* failed, the fetcher was invoked exactly once for the uri.
C2_ExactlyOneFetch ==
    \A u \in Uris :
        ( /\ Len(calls) >= 2
          /\ \A c \in DOMAIN calls :
                /\ calls[c].op = "getJwk" /\ calls[c].uri = u /\ calls[c].kid \in Kids
                /\ calls[c].fresh
                /\ calls[c].pc = "done"
          /\ \A f \in DOMAIN fetches : fetches[f].state = "fulfilled" )
        => Cardinality(FetchesOf(u)) = 1

\* C3: in a run of getJwk calls whose kids are in no JWKS that was fetched
\* (and so in no cached one), no fetch of a uri starts within waitSeconds of
\* a failed attempt registered for the uri, no successful attempt having
\* been registered since.
C3_NoFetchInWindow ==
    [][ (\A c \in DOMAIN calls' :
            /\ calls'[c].op = "getJwk" /\ calls'[c].kid \in Kids
            /\ \A f \in DOMAIN fetches :
                  fetches[f].state = "fulfilled"
                  => findJwkInJwks(fetches[f].result.jwks, calls'[c].kid) = Absent)
        => \A u \in Uris :
              (InWindow(u) /\ ~succSince[u]) => FetchesOf(u)' = FetchesOf(u) ]_vars

C5_WaitFollowsLastAttempt ==
    \A c \in DOMAIN calls :
        calls[c].op = "wait" =>
            /\ calls[c].afterFail => calls[c].ret = WaitError
            /\ calls[c].afterSuccess => calls[c].ret = Void

\* C6: the cache never holds a value that is not a valid JWKS, and the step
\* in which a call gets the failure of its fetch ends the call with that
\* error, leaves the cached JWKS of every uri as it was and leaves the uri
\* without the pending entry of that fetch.
C6_FailureLeavesCache ==
    /\ [](\A u \in Uris : jwksCache[u] # Absent => assertIsJwks(jwksCache[u]))
    /\ [][\A c \in DOMAIN calls :
            ( /\ calls[c].pc \in {"awaitFetch", "awaitShared"}
              /\ fetches[calls[c].fetch].state = "rejected"
              /\ calls'[c] # calls[c] )
            => /\ calls'[c].pc = "done"
               /\ calls'[c].ret = fetches[calls[c].fetch].result
               /\ calls'[c].ret.kind = "error"
               /\ jwksCache' = jwksCache
               /\ fetchingJwks'[calls[c].uri] # calls[c].fetch]_vars

\* A call ended with the failure of its fetch while the cache held a JWKS.
C6_Witness ==
    /\ \E c \in DOMAIN calls :
          /\ calls[c].fetch # 0
          /\ calls[c].pc = "done"
          /\ calls[c].ret.kind = "error"
          /\ calls[c].ret = fetches[calls[c].fetch].result
    /\ \E u \in Uris : jwksCache[u] # Absent

\* C7: every call that has got the outcome of a fetch has got the outcome
\* the fetch settled with, so the calls that share a fetch get the same
\* JWKS or the same error; and no call is left waiting for a settled
\* fetch: the call that started it can continue, and a call that joined it
\* can continue as soon as the call that started it has.
C7_SameOutcome ==
    \A c \in DOMAIN calls :
        calls[c].fetch # 0 =>
            LET f == calls[c].fetch IN
            /\ calls[c].jwks # Pending =>
                  /\ fetches[f].state # "pending"
                  /\ calls[c].jwks = fetches[f].result
                  /\ \A d \in DOMAIN calls :
                        (calls[d].fetch = f /\ calls[d].jwks # Pending)
                        => calls[d].jwks = calls[c].jwks
            /\ (calls[c].op = "getJwks" /\ calls[c].pc = "done")
                  => calls[c].ret = fetches[f].result
            /\ (calls[c].pc = "awaitFetch" /\ fetches[f].state # "pending")
                  => ENABLED GetJwksResume(c)
            /\ (calls[c].pc = "awaitShared" /\ fetches[f].state # "pending")
                  => \/ ENABLED GetJwksShared(c)
                     \/ /\ calls[fetches[f].owner].pc = "awaitFetch"
                        /\ ENABLED GetJwksResume(fetches[f].owner)

\* Two calls shared a fetch that failed to validate and both have its error.
C7_Witness ==
    \E c, d \in DOMAIN calls :
        /\ c # d
        /\ calls[c].fetch # 0
        /\ calls[c].fetch = calls[d].fetch
        /\ calls[c].pc = "done" /\ calls[d].pc = "done"
        /\ calls[c].ret = Err("JwkValidationError")
        /\ calls[d].ret = calls[c].ret

\* This step is addJwks(u, j) and leaves j in the cache.
AddJwksStep(u) ==
    /\ Len(calls') = Len(calls) + 1
    /\ calls'[Len(calls')].op = "addJwks"
    /\ calls'[Len(calls')].uri = u
    /\ jwksCache'[u] = calls'[Len(calls')].jwks.jwks

\* This step hands a fetched JWKS of u to the call that started the fetch
\* and leaves that JWKS in the cache.
FetchedStep(u) ==
    \E f \in FetchesOf(u) :
        /\ ~fetches[f].ownerDone
        /\ fetches'[f].ownerDone
        /\ fetches[f].state = "fulfilled"
        /\ jwksCache'[u] = fetches[f].result.jwks

\* C8: a uri that has a JWKS in the cache has one after every step, and
\* the entry changes only in a step of addJwks for the uri or in the step
\* that stores a fetched JWKS of the uri, and then to that whole value.
C8_CacheKeepsEntries ==
    [][\A u \in Uris :
          /\ jwksCache[u] # Absent => jwksCache'[u] # Absent
          /\ jwksCache'[u] # jwksCache[u] => AddJwksStep(u) \/ FetchedStep(u)]_vars

\* A kid was missed, by getCachedJwk and by a refresh in getJwk, and a call
\* was rejected by the penalty box or lost its fetch, with a JWKS cached.
C8_Witness ==
    \E c \in DOMAIN calls :
        /\ jwksCache[calls[c].uri] # Absent
        /\ calls[c].op \in {"getJwk", "getCachedJwk"}
        /\ calls[c].ret = KidError

\* C9: the step that hands a fetched JWKS to the call that started the
\* fetch leaves exactly that JWKS in the cache of the uri, whatever was
\* there; and a getJwk call that has refreshed returns the first key of the
\* fetched JWKS with its kid, or fails with KidNotFoundInJwksError when
\* there is none.
C9_FetchedReplacesCached ==
    /\ [][\A f \in DOMAIN fetches :
            (~fetches[f].ownerDone /\ fetches'[f].ownerDone
                /\ fetches[f].state = "fulfilled")
            => jwksCache'[fetches[f].uri] = fetches[f].result.jwks]_vars
    /\ [](\A c \in DOMAIN calls :
            (calls[c].op = "getJwk" /\ calls[c].pc = "done"
                /\ calls[c].jwks.kind = "jwks")
            => LET jwk == findJwkInJwks(calls[c].jwks.jwks, calls[c].kid) IN
               calls[c].ret = IF jwk = Absent THEN KidError ELSE OkJwk(jwk))

\* Key rotation: addJwks cached a JWKS without the kid, getJwk refreshed,
\* the fetched JWKS replaced the cached one and the call returned the new key.
C9_Witness ==
    \E c, d \in DOMAIN calls :
        /\ calls[d].op = "addJwks"
        /\ calls[c].op = "getJwk"
        /\ calls[c].uri = calls[d].uri
        /\ calls[c].pc = "done"
        /\ calls[c].ret = OkJwk(K2)
        /\ calls[c].fetch # 0
        /\ findJwkInJwks(calls[d].jwks.jwks, "k2") = Absent
        /\ jwksCache[calls[c].uri] = calls[c].jwks.jwks

\* C10: a getJwk call that ended with KidNotFoundInJwksError has called
\* wait, then getJwks, then registerFailedAttempt once, which is in force or
\* was superseded; one that returned a key after a refresh has called wait,
\* then getJwks, then registerSuccessfulAttempt once; and no call has
\* started or joined a fetch before it called wait.
C10_PenaltyBoxCalls ==
    \A c \in DOMAIN calls :
        calls[c].op = "getJwk" =>
            /\ calls[c].ret = KidError =>
                  /\ calls[c].trace \in {<<"wait", "fetch", "registerFailedAttempt">>,
                                        <<"wait", "join", "registerFailedAttempt">>}
                  /\ sinceFail[calls[c].uri] # -1
            /\ (calls[c].ret.kind = "jwk" /\ calls[c].fetch # 0) =>
                  calls[c].trace \in {<<"wait", "fetch", "registerSuccessfulAttempt">>,
                                     <<"wait", "join", "registerSuccessfulAttempt">>}
            /\ calls[c].fetch # 0 =>
                  /\ calls[c].trace[1] = "wait"
                  /\ calls[c].trace[2] \in {"fetch", "join"}
            /\ (calls[c].pc # "done" /\ Len(calls[c].trace) > 0) =>
                  /\ calls[c].trace[1] = "wait"
                  /\ Len(calls[c].trace) <= 2

\* A call missed its kid after a refresh and registered the failed attempt.
C10_Witness ==
    \E c \in DOMAIN calls :
        /\ calls[c].ret = KidError
        /\ calls[c].op = "getJwk"
        /\ calls[c].trace = <<"wait", "fetch", "registerFailedAttempt">>
        /\ waitingUris[calls[c].uri] # 0

\* This step is a call of getJwk for a kid that the cached JWKS of the uri has.
GetJwkHitStep ==
    /\ Len(calls') = Len(calls) + 1
    /\ calls'[Len(calls')].op = "getJwk"
    /\ calls'[Len(calls')].kid \in Kids
    /\ jwksCache[calls'[Len(calls')].uri] # Absent
    /\ findJwkInJwks(jwksCache[calls'[Len(calls')].uri], calls'[Len(calls')].kid) # Absent

\* C11: a getJwk call for a kid that the cached JWKS of the uri has returns
\* the cached key at once, without calling the penalty box or the fetcher,
\* and leaves the cache, the pending fetches and the penalty box as they
\* were, also while the uri is in its wait period.
C11_CacheHitFrame ==
    [][GetJwkHitStep =>
          LET c == calls'[Len(calls')] IN
          /\ c.pc = "done"
          /\ c.ret = OkJwk(findJwkInJwks(jwksCache[c.uri], c.kid))
          /\ c.trace = <<>>
          /\ c.fetch = 0
          /\ jwksCache' = jwksCache
          /\ fetchingJwks' = fetchingJwks
          /\ fetches' = fetches
          /\ waitingUris' = waitingUris
          /\ timers' = timers]_vars

\* A call missed its kid, the next call was rejected by the penalty box, and
\* the call after it got the cached key while the uri was still waiting.
C11_Witness ==
    /\ Len(calls) = 3
    /\ calls[1].ret = KidError
    /\ calls[2].ret = WaitError
    /\ calls[3].ret.kind = "jwk"
    /\ calls[3].trace = <<>>
    /\ \A c \in DOMAIN calls : calls[c].pc = "done"
    /\ waitingUris["u1"] # 0

\* Calls c and d are getJwk calls with different kids that share a fetch.
ShareFetch(c, d) ==
    /\ c # d
    /\ calls[c].op = "getJwk" /\ calls[d].op = "getJwk"
    /\ calls[c].fetch # 0
    /\ calls[c].fetch = calls[d].fetch
    /\ calls[c].kid # calls[d].kid

\* C12: of two getJwk calls with different kids that share a fetch, each
\* one that has completed after the fetch succeeded has the first key of its
\* own kid in the fetched JWKS, or KidNotFoundInJwksError when there is no
\* such key, whatever the other call has got; and no step changes the
\* result of a call that has completed.
C12_OwnLookup ==
    /\ [](\A c, d \in DOMAIN calls :
            ( /\ ShareFetch(c, d)
              /\ calls[c].pc = "done"
              /\ fetches[calls[c].fetch].state = "fulfilled" )
            => LET jwk == findJwkInJwks(fetches[calls[c].fetch].result.jwks,
                                         calls[c].kid) IN
               calls[c].ret = IF jwk = Absent THEN KidError ELSE OkJwk(jwk))
    /\ [][\A c \in DOMAIN calls :
            calls[c].pc = "done" => calls'[c].ret = calls[c].ret]_vars

\* Two calls shared a fetch: the one whose kid is in the fetched JWKS got its
\* key, the one whose kid is not in it failed with KidNotFoundInJwksError.
C12_Witness ==
    \E c, d \in DOMAIN calls :
        /\ ShareFetch(c, d)
        /\ "join" \in {calls[c].trace[2], calls[d].trace[2]}
        /\ calls[c].pc = "done" /\ calls[d].pc = "done"
        /\ calls[c].ret.kind = "jwk"
        /\ calls[c].ret.jwk.kid = calls[c].kid
        /\ calls[d].ret = KidError

\* This step is a call of getCachedJwk.
GetCachedJwkStep ==
    /\ Len(calls') = Len(calls) + 1
    /\ calls'[Len(calls')].op = "getCachedJwk"

\* C13: a call of getCachedJwk, whether it returns a key or raises, starts
\* and joins no fetch, does not call the penalty box, and leaves the cache,
\* the pending fetches, the penalty box and every other call as they were.
C13_GetCachedJwkFrame ==
    [][GetCachedJwkStep =>
          /\ calls'[Len(calls')].pc = "done"
          /\ calls'[Len(calls')].fetch = 0
          /\ calls'[Len(calls')].trace = <<>>
          /\ calls'[Len(calls')].ret.kind \in {"jwk", "error"}
          /\ SubSeq(calls', 1, Len(calls)) = calls
          /\ jwksCache' = jwksCache
          /\ fetchingJwks' = fetchingJwks
          /\ fetches' = fetches
          /\ waitingUris' = waitingUris
          /\ timers' = timers]_vars

\* getCachedJwk raised for a uri whose first fetch, started by the getJwks
\* call before it, is still pending.
C13_Witness ==
    /\ Len(calls) = 2
    /\ calls[1].op = "getJwks"
    /\ calls[2].op = "getCachedJwk"
    /\ calls[2].uri = calls[1].uri
    /\ calls[2].ret = Err("JwksNotAvailableInCacheError")
    /\ fetchingJwks[calls[1].uri] = calls[1].fetch
    /\ fetches[calls[1].fetch].state = "pending"

\* C14 as stated: getCachedJwk fails with JwksNotAvailableInCacheError when
\* the uri is not cached, also when the header has no string kid; else with
\* JwtWithoutValidKidError when the header has no string kid; else with
\* KidNotFoundInJwksError when no cached key has the kid.
C14_CacheCheckedFirst ==
    [][GetCachedJwkStep =>
          LET c == calls'[Len(calls')] IN
          c.ret = IF jwksCache[c.uri] = Absent
                  THEN Err("JwksNotAvailableInCacheError")
                  ELSE IF c.kid = NoKid THEN Err("JwtWithoutValidKidError")
                  ELSE IF findJwkInJwks(jwksCache[c.uri], c.kid) = Absent
                  THEN KidError
                  ELSE OkJwk(findJwkInJwks(jwksCache[c.uri], c.kid))]_vars

\* C14 as amended: getCachedJwk fails with JwtWithoutValidKidError when the
\* header has no string kid, whether the uri is cached or not; else with
\* JwksNotAvailableInCacheError when the uri is not cached; else with
\* KidNotFoundInJwksError when no cached key has the kid; else it returns
\* the first cached key with the kid.
C14_KidCheckedFirst ==
    [][GetCachedJwkStep =>
          LET c == calls'[Len(calls')] IN
          c.ret = IF c.kid = NoKid THEN Err("JwtWithoutValidKidError")
                  ELSE IF jwksCache[c.uri] = Absent
                  THEN Err("JwksNotAvailableInCacheError")
                  ELSE IF findJwkInJwks(jwksCache[c.uri], c.kid) = Absent
                  THEN KidError
                  ELSE OkJwk(findJwkInJwks(jwksCache[c.uri], c.kid))]_vars

\* getCachedJwk was called with a header without kid for a uri that is not
\* cached, and raised JwtWithoutValidKidError.
C14_Witness ==
    \E c \in DOMAIN calls :
        /\ calls[c].op = "getCachedJwk"
        /\ calls[c].kid = NoKid
        /\ jwksCache[calls[c].uri] = Absent
        /\ calls[c].ret = Err("JwtWithoutValidKidError")

\* This step is a call of getJwks(u).
GetJwksStep(u) ==
    /\ Len(calls') = Len(calls) + 1
    /\ calls'[Len(calls')].op = "getJwks"
    /\ calls'[Len(calls')].uri = u

\* C15 as stated: a call of getJwks for a uri that has a cached JWKS
\* returns that JWKS and starts no fetch.
C15_ReturnsCached ==
    [][\A u \in Uris :
          (GetJwksStep(u) /\ jwksCache[u] # Absent)
          => /\ fetches' = fetches
             /\ calls'[Len(calls')].ret = OkJwks(jwksCache[u])]_vars

\* C15 as amended: a call of getJwks for a uri that has a pending fetch
\* joins that fetch and starts none; every other call of getJwks, whether
\* the uri has a cached JWKS or not, starts one fetch of the uri and marks
\* it as pending; and a completed call has the outcome of its fetch.
C15_JoinsOrFetches ==
    /\ [][\A u \in Uris :
            GetJwksStep(u) =>
                IF fetchingJwks[u] # 0
                THEN /\ fetches' = fetches
                     /\ fetchingJwks' = fetchingJwks
                     /\ calls'[Len(calls')].fetch = fetchingJwks[u]
                ELSE /\ Len(fetches') = Len(fetches) + 1
                     /\ fetches'[Len(fetches')].uri = u
                     /\ fetches'[Len(fetches')].state = "pending"
                     /\ fetchingJwks'[u] = Len(fetches')
                     /\ calls'[Len(calls')].fetch = Len(fetches')]_vars
    /\ [](\A c \in DOMAIN calls :
            (calls[c].op = "getJwks" /\ calls[c].pc = "done")
            => /\ calls[c].fetch # 0
               /\ calls[c].ret = fetches[calls[c].fetch].result)

\* addJwks cached a JWKS for a uri and the getJwks call after it started a
\* fetch of that uri.
C15_Witness ==
    /\ Len(calls) = 2
    /\ calls[1].op = "addJwks"
    /\ calls[2].op = "getJwks"
    /\ calls[2].uri = calls[1].uri
    /\ calls[2].trace = <<"fetch">>
    /\ fetches[calls[2].fetch].uri = calls[1].uri

\* C16: every key that getJwk or getCachedJwk has returned has a kid that
\* is a string and is not the empty string.
C16_ReturnedKidNonEmpty ==
    \A c \in DOMAIN calls :
        (calls[c].op \in {"getJwk", "getCachedJwk"} /\ calls[c].ret.kind = "jwk")
        => calls[c].ret.jwk.kid \notin {NoKid, NonString, EmptyKid}

\* jwk is the first of the keys of jwks, in sequence order, whose kid is kid.
FirstWithKid(jwks, kid, jwk) ==
    \E i \in 1..Len(jwks.keys) :
        /\ jwks.keys[i] = jwk
        /\ jwks.keys[i].kid = kid
        /\ \A j \in 1..(i - 1) : jwks.keys[j].kid # kid

\* Call c of getJwk or getCachedJwk returns a key in this step.
ReturnsJwkStep(c) ==
    /\ calls'[c].op \in {"getJwk", "getCachedJwk"}
    /\ calls'[c].ret.kind = "jwk"
    /\ c \in DOMAIN calls => calls[c].ret = Pending

\* C17: a key that getJwk or getCachedJwk returns is the first key with the
\* kid of the header in the JWKS that was cached for the uri of the call when
\* the call read the cache or, when the call refreshed, in the JWKS that the
\* fetch of that uri delivered to the call.
C17_FirstMatchOfSameUri ==
    [][\A c \in DOMAIN calls' :
          ReturnsJwkStep(c) =>
              LET r == calls'[c] IN
              IF r.fetch = 0
              THEN /\ jwksCache[r.uri] # Absent
                   /\ FirstWithKid(jwksCache[r.uri], r.kid, r.ret.jwk)
              ELSE /\ fetches[r.fetch].uri = r.uri
                   /\ fetches[r.fetch].state = "fulfilled"
                   /\ FirstWithKid(fetches[r.fetch].result.jwks, r.kid, r.ret.jwk)]_vars

\* While the other uri had a JWKS with a key of kid k1 in the cache, getJwk
\* fetched a JWKS with two keys of kid k1 and returned the first of them.
C17_Witness ==
    /\ Len(calls) = 2
    /\ calls[1].op = "addJwks" /\ calls[1].uri = "u2"
    /\ jwksCache["u2"] = J2
    /\ calls[2].op = "getJwk" /\ calls[2].uri = "u1" /\ calls[2].kid = "k1"
    /\ calls[2].jwks = OkJwks(JDup)
    /\ calls[2].ret = OkJwk(K1)

\* This step is a call of the penalty box with the uri u.
BoxStep(op, u) ==
    /\ Len(calls') = Len(calls) + 1
    /\ calls'[Len(calls')].op = op
    /\ calls'[Len(calls')].uri = u

\* C18: whatever the kid, wait(uri, kid) throws exactly when a failed
\* attempt was registered for the uri, with any kid, and no successful
\* attempt was registered for the uri and no timer of the uri has run since;
\* and a call of the penalty box for one uri leaves what wait does for every
\* other uri as it was.
C18_BoxPerUri ==
    /\ [][\A u \in Uris :
            BoxStep("wait", u)
            => (calls'[Len(calls')].ret = WaitError <=> MissOpen(u))]_vars
    /\ [][\A u \in Uris, op \in {"wait", "registerFailedAttempt",
                                  "registerSuccessfulAttempt"} :
            BoxStep(op, u)
            => \A v \in Uris \ {u} : waitThrows(v)' = waitThrows(v)]_vars

\* After a failed attempt for a uri and one kid, wait for the uri and the
\* other kid threw, and wait for the other uri and the first kid returned.
C18_Witness ==
    /\ Len(calls) = 3
    /\ calls[1].op = "registerFailedAttempt"
    /\ calls[2].op = "wait"
    /\ calls[2].uri = calls[1].uri /\ calls[2].kid # calls[1].kid
    /\ calls[2].ret = WaitError
    /\ calls[3].op = "wait"
    /\ calls[3].uri # calls[1].uri /\ calls[3].kid = calls[1].kid
    /\ calls[3].ret = Void

\* The steps of verify and verifySync, in the order of the pipeline.
Pipeline ==
    <<"getVerifyParameters", "getJwk", "verifySignature", "validateJwtFields",
      "validateAlbJwtFields">>

\* The steps of a call: those of the pipeline, with the customJwtCheck of
\* the call, if it has one, where the code invokes it.
PipelineOf(rec) ==
    IF rec.props.customJwtCheck = "none" THEN Pipeline
    ELSE <<"getVerifyParameters", "getJwk", "verifySignature",
           "validateJwtFields", "customJwtCheck", "validateAlbJwtFields">>

IsPrefix(s, t) == Len(s) <= Len(t) /\ \A i \in 1..Len(s) : s[i] = t[i]
Ran(rec, step) == \E i \in 1..Len(rec.trace) : rec.trace[i] = step
HasJwk(rec) == rec.jwks.kind = "jwk"
SignatureVerified(rec) == HasJwk(rec) /\ verifySignature(rec.jwt, rec.jwks.jwk)
CarriesRawJwt(ret) == "rawJwt" \in DOMAIN ret

\* The number of steps a finished call of verify or verifySync ran when the
\* first step of the pipeline that fails is its last one.
StepsToFirstFailure(rec) ==
    IF getVerifyParameters(rec.jwt, rec.props).kind = "error" THEN 1
    ELSE IF ~HasJwk(rec) THEN 2
    ELSE IF ~verifySignature(rec.jwt, rec.jwks.jwk) THEN 3
    ELSE IF rec.jwt.claims # "ok" THEN 4
    ELSE IF rec.props.customJwtCheck = "throws" THEN 5
    ELSE Len(PipelineOf(rec))

\* C19: a call of verify or verifySync runs the steps of the pipeline in
\* order; validateAlbJwtFields (the header signer and client checks) has
\* run only if the JWK was obtained, the signature is verified and the
\* claims are valid; a finished call stopped at the first step that failed;
\* it returned the payload only if every step ran and none failed; and a
\* step of the program only adds steps to what a call has run and leaves a
\* finished call as it is.
C19_HeaderChecksAfterSignature ==
    /\ [](\A c \in Verifies :
            LET rec == calls[c] IN
            /\ IsPrefix(rec.trace, PipelineOf(rec))
            /\ Ran(rec, "validateAlbJwtFields")
                  => SignatureVerified(rec) /\ rec.jwt.claims = "ok"
            /\ Ran(rec, "verifySignature") => HasJwk(rec)
            /\ rec.pc = "done"
                  => /\ Len(rec.trace) = StepsToFirstFailure(rec)
                     /\ rec.ret.kind \in {"error", "payload"}
                     /\ rec.ret = Payload
                          <=> /\ rec.trace = PipelineOf(rec)
                              /\ validateAlbJwtFields(rec.jwt, rec.props) = Void)
    /\ [][\A c \in Verifies :
            /\ IsPrefix(calls[c].trace, calls'[c].trace)
            /\ calls[c].pc = "done" => calls'[c] = calls[c]]_vars

\* A call of verify ended with JwtInvalidSignatureError for a JWT whose
\* signer is not the configured one, without the header checks having run,
\* and a call of verifySync returned the payload.
C19_Witness ==
    /\ \E c \in Verifies :
          /\ calls[c].op = "verify" /\ calls[c].pc = "done"
          /\ calls[c].ret = Err("JwtInvalidSignatureError")
          /\ validateAlbJwtFields(calls[c].jwt, calls[c].props).kind = "error"
          /\ ~Ran(calls[c], "validateAlbJwtFields")
    /\ \E c \in Verifies :
          /\ calls[c].op = "verifySync"
          /\ calls[c].ret = Payload
          /\ Ran(calls[c], "validateAlbJwtFields")

\* C20: the error of a call of verify or verifySync carries a rawJwt only
\* if includeRawJwtInErrors is set, the error is a JwtInvalidClaimError and
\* the signature of the JWT was verified, and then the rawJwt is the JWT of
\* the call; a signature error, a key-discovery error, a fetch error and a
\* ParameterValidationError carry none; and the catch block around
\* validateAlbJwtFields gives a rawJwt to no error of validateAlbJwtFields
\* other than a JwtInvalidClaimError, and to none with the flag unset.
C20_RawJwtOnlyOnClaimError ==
    /\ \A c \in Verifies :
          LET rec == calls[c] IN
          /\ (rec.ret.kind = "error" /\ CarriesRawJwt(rec.ret))
                => /\ rec.props.includeRawJwtInErrors
                   /\ rec.ret.err \in ClaimErrors
                   /\ SignatureVerified(rec)
                   /\ Ran(rec, "verifySignature")
                   /\ rec.ret.rawJwt = rec.jwt
          /\ (rec.ret.kind = "error" /\ rec.ret.err \notin ClaimErrors)
                => ~CarriesRawJwt(rec.ret)
          /\ rec.ret.kind = "payload" => ~CarriesRawJwt(rec.ret)
    /\ \A in \in VerifyInputs :
          LET alb == validateAlbJwtFields(in[1], in[2]) IN
          alb.kind = "error"
          => (CarriesRawJwt(albCatch(alb, in[1], in[2]))
                => in[2].includeRawJwtInErrors /\ alb.err \in ClaimErrors)

\* With the flag set, a call of verify ended with the JwtInvalidClaimError
\* of the header checks carrying the rawJwt and a call ended with
\* JwtInvalidSignatureError without one.
C20_Witness ==
    /\ \E c \in Verifies :
          /\ calls[c].op = "verify"
          /\ calls[c].ret.kind = "error" /\ calls[c].ret.err = "JwtInvalidClaimError"
          /\ CarriesRawJwt(calls[c].ret)
    /\ \E c \in Verifies :
          /\ calls[c].props.includeRawJwtInErrors
          /\ calls[c].ret = Err("JwtInvalidSignatureError")

\* What the claim says of one check of validateAlbJwtFields: the header
\* value actual against the configured value expected.
CheckOf(actual, expected) ==
    IF expected = Null THEN "skipped"
    ELSE IF expected = Undefined THEN "ParameterValidationError"
    ELSE IF expected.t = "string" /\ actual = expected.v THEN "passed"
    ELSE IF expected.t = "list"
            /\ actual \in {expected.v[i] : i \in 1..Len(expected.v)} THEN "passed"
    ELSE "JwtInvalidClaimError"

ValidateAlbJwtFieldsCalls ==
    {d \in DOMAIN calls : calls[d].op = "validateAlbJwtFields"}

\* C21: validateAlbJwtFields checks header.signer against albArn and then
\* header.client against clientId. A check is skipped for null, throws
\* ParameterValidationError for undefined, passes when the header value is
\* the configured string or an element of the configured list, and throws a
\* JwtInvalidClaimError otherwise (a missing header value included). The
\* call throws the error of the signer check if that check fails, else the
\* error of the client check if that one fails, else it returns.
C21_SignerThenClient ==
    \A d \in ValidateAlbJwtFieldsCalls :
        LET rec == calls[d]
            signer == CheckOf(rec.header.signer, rec.options.albArn)
            client == CheckOf(rec.header.client, rec.options.clientId) IN
        IF signer \notin {"skipped", "passed"}
        THEN /\ rec.ret.kind = "error" /\ rec.ret.err = signer
             /\ rec.ret.name \in {"ALB ARN", "albArn"}
        ELSE IF client \notin {"skipped", "passed"}
        THEN /\ rec.ret.kind = "error" /\ rec.ret.err = client
             /\ rec.ret.name \in {"Client ID", "clientId"}
        ELSE rec.ret = Void

\* A call with a signer that is not in the configured list and a client
\* that is missing threw the error of the ALB ARN.
C21_Witness ==
    \E d \in ValidateAlbJwtFieldsCalls :
        /\ calls[d].options.albArn.t = "list"
        /\ calls[d].options.clientId.t = "string"
        /\ calls[d].header.signer = "c1"
        /\ calls[d].header.client = NoKid
        /\ calls[d].ret = AlbErr("JwtInvalidClaimError", "ALB ARN")

\* A call of verify or verifySync with a JWT that can be decomposed and
\* without albArn or without clientId.
MissingMandatory(rec) ==
    /\ rec.jwt.wellFormed
    /\ rec.props.albArn = Undefined \/ rec.props.clientId = Undefined

C23_CustomJwtCheckLast ==
    \A c \in Verifies :
        LET rec == calls[c] IN
        Ran(rec, "customJwtCheck")
        => /\ rec.trace[Len(rec.trace)] = "customJwtCheck"
           /\ \A i \in 1..Len(Pipeline) : Ran(rec, Pipeline[i])
           /\ validateAlbJwtFields(rec.jwt, rec.props) = Void

\* A call of verify or verifySync that found the JWK of its JWT in the
\* cache: verifySync got it from getCachedJwk, verify from a getJwk that
\* returned it before its first await.
CacheHit(c) ==
    IF calls[c].op = "verifySync" THEN HasJwk(calls[c])
    ELSE /\ calls[c].jwkCall # 0
         /\ calls[calls[c].jwkCall].ret.kind = "jwk"
         /\ calls[calls[c].jwkCall].trace = <<>>

JwkOf(c) ==
    IF calls[c].op = "verifySync" THEN calls[c].jwks
    ELSE calls[calls[c].jwkCall].ret

SameOutcome(a, b) ==
    /\ a.kind = b.kind
    /\ a.kind = "error" => /\ a.err = b.err
                           /\ CarriesRawJwt(a) <=> CarriesRawJwt(b)

C25_UnmarkedOnceSettled ==
    /\ [](\A u \in Uris :
            LET f == fetchingJwks[u] IN
            f # 0
            => /\ f \in DOMAIN fetches
               /\ fetches[f].uri = u
               /\ ~fetches[f].ownerDone
               /\ calls[fetches[f].owner].pc = "awaitFetch"
               /\ calls[fetches[f].owner].fetch = f
               /\ fetches[f].state # "pending"
                    => ENABLED GetJwksResume(fetches[f].owner))
    /\ [](\A f \in DOMAIN fetches :
            fetches[f].ownerDone
            => fetches[f].state # "pending" /\ fetchingJwks[fetches[f].uri] # f)
    /\ [][\A u \in Uris :
            (fetchingJwks[u] = 0 /\ fetchingJwks'[u] # 0)
            => /\ Len(fetches') = Len(fetches) + 1
               /\ fetchingJwks'[u] = Len(fetches')
               /\ fetches'[Len(fetches')].state = "pending"]_vars
    /\ [][\A u \in Uris :
            (GetJwksStep(u) /\ fetchingJwks[u] = 0)
            => /\ Len(fetches') = Len(fetches) + 1
               /\ calls'[Len(calls')].fetch = Len(fetches')]_vars

\* After a fetch for a uri was rejected and the call that started it has
\* ended with the error, a second call has started a second fetch for the
\* uri.
C25_Witness ==
    \E u \in Uris :
        /\ Cardinality(FetchesOf(u)) = 2
        /\ fetches[1].uri = u /\ fetches[1].state = "rejected"
        /\ fetches[1].ownerDone
        /\ calls[fetches[1].owner].ret.kind = "error"
        /\ fetchingJwks[u] = 2
        /\ fetches[2].state = "pending"

TimersOf(u) == {t \in timers : t.uri = u}

\* C26: in every state of the penalty box a uri has at most one
\* outstanding timer, the uri is in waitingUris exactly when it has an
\* outstanding timer, and every outstanding timer is the one waitingUris
\* holds for its uri: no timer of an earlier registerFailedAttempt is left
\* after registerSuccessfulAttempt or after a later registerFailedAttempt
\* that could remove the entry of a later registration.
C26_OneTimerPerUri ==
    \A u \in Uris :
        /\ Cardinality(TimersOf(u)) <= 1
        /\ waitingUris[u] # 0 <=> TimersOf(u) # {}
        /\ \A t \in TimersOf(u) : waitingUris[u] = t.id

\* Step: the getJwk call c ends with an error when the getJwks it awaits
\* has settled.
RefreshFailsStep(c) ==
    /\ calls[c].op = "getJwk"
    /\ calls[c].pc \in {"awaitFetch", "awaitShared"}
    /\ calls'[c].pc = "done"
    /\ calls'[c].ret.kind = "error"

Registered(rec) ==
    \E i \in 1..Len(rec.trace) :
        rec.trace[i] \in {"registerFailedAttempt", "registerSuccessfulAttempt"}

\* C27: when the fetch, or the parsing of its response, fails, the getJwk
\* call that awaits it ends with the error of the fetch, registers neither
\* a failed nor a successful attempt and leaves the penalty box as it is
\* (wait throws for the uri after the step only if it did before), and the
\* uri is not marked with the failed fetch after the step, so that a getJwk
\* call for the uri that wait lets through starts a new fetch unless one
\* is under way.
C27_FetchFailureNotPenalised ==
    /\ [][\A c \in DOMAIN calls :
            RefreshFailsStep(c)
            => /\ fetches[calls[c].fetch].state = "rejected"
               /\ calls'[c].ret = fetches[calls[c].fetch].result
               /\ ~Registered(calls'[c])
               /\ waitingUris' = waitingUris /\ timers' = timers
               /\ waitThrows(calls[c].uri)' <=> waitThrows(calls[c].uri)
               /\ fetchingJwks'[calls[c].uri] # calls[c].fetch]_vars
    /\ [](\A c \in DOMAIN calls :
            (/\ calls[c].op = "getJwk" /\ calls[c].pc = "done"
             /\ calls[c].fetch # 0
             /\ fetches[calls[c].fetch].state = "rejected")
            => /\ calls[c].ret = fetches[calls[c].fetch].result
               /\ ~Registered(calls[c]))
    /\ [][\A c \in DOMAIN calls :
            (/\ calls[c].op = "getJwk" /\ calls[c].pc = "awaitWait"
             /\ calls'[c].pc # "awaitWait" /\ fetchingJwks[calls[c].uri] = 0)
            => /\ Len(fetches') = Len(fetches) + 1
               /\ calls'[c].fetch = Len(fetches')]_vars

\* A getJwk call ended with the error of its rejected fetch, wait does not
\* throw for the uri, and the next getJwk call for the uri has started a
\* second fetch.
C27_Witness ==
    /\ Len(calls) = 2 /\ Len(fetches) = 2
    /\ calls[1].op = "getJwk" /\ calls[2].op = "getJwk"
    /\ calls[1].uri = calls[2].uri
    /\ calls[1].pc = "done" /\ calls[1].ret = fetches[1].result
    /\ fetches[1].state = "rejected"
    /\ ~waitThrows(calls[1].uri)
    /\ calls[2].fresh = FALSE
    /\ calls[2].fetch = 2 /\ fetches[2].owner = 2

====
